---- MODULE Spec2Model ----
(***************************************************************************)
(* Order execution and scheduling engine of the Binance futures trading    *)
(* bot (src/trading_bot.py) and the interactive flows that call it         *)
(* (src/cli.py).                                                           *)
(*                                                                         *)
(* Decimal values (prices, quantities, notional) are integers counted in   *)
(* thousandths: 1.0 is 1000, the default tick 0.1 is 100.  Where the code  *)
(* computes in floats (the quantity per leg, the grid's price ladder, the  *)
(* price bands of the flows) the model computes the same binary64 values.  *)
(* Durations are counted in milliseconds.  An Optional[Dict] is a sequence *)
(* of length at most one: << >> is None and <<d>> is the dict d.           *)
(***************************************************************************)
EXTENDS Integers, Sequences, FiniteSets, TLC

VARIABLES
    meta,       \* what the venue's exchange-info endpoint currently serves
    op,         \* the bot method being executed, "idle" before the call
    caller,     \* "direct" (the method is called as such) or the TradingCLI flow calling it
    args,       \* the arguments of the call
    loc,        \* the locals of the strategy: quantity per leg, interval, price step
    pc,         \* position of the flow of control inside the method
    i,          \* loop variable of the strategy
    orders,     \* the strategy's list `orders`
    result,     \* the primitive submitter's return value (Optional[Dict])
    exc,        \* the exception that left the method, "none" if none did
    venue,      \* order-creation requests the venue has received, in order
    cancels,    \* number of cancel requests the venue has received
    metaCalls,  \* number of exchange-info and ticker requests the venue has received
    sleeps,     \* the finished time.sleep calls, in order
    reported,   \* the final "k/n successful" report, << >> while there is none
    typed,      \* what the operator typed in the interactive flow
    calls       \* the Precision Resolver's and Order Normalizer's methods called as such, with what each returned

vars == <<meta, op, caller, args, loc, pc, i, orders, result, exc,
          venue, cancels, metaCalls, sleeps, reported, typed, calls>>

----------------------------------------------------------------------------
(* Bounds of the model. *)

\* Largest num_orders / num_grids a caller passes.
MaxLegs == 5

\* Number of calls of the resolver's and normalizer's methods in a session.
MaxCalls == 2


----------------------------------------------------------------------------
(* Program constants. *)

\* `return 0.1  # Default tick size`
DefaultTickSize == 100

\* `return 2, 3  # Default values`: price precision
DefaultPricePrecision == 2

\* `return 2, 3  # Default values`: quantity precision
DefaultQuantityPrecision == 3

\* `return 5.0  # Default minimum`
DefaultMinNotional == 5000

\* `time.sleep(0.2)`, in milliseconds
GridDelay == 200

RECURSIVE Pow10(_)
Pow10(k) == IF k <= 0 THEN 1 ELSE 10 * Pow10(k - 1)

None == << >>

----------------------------------------------------------------------------
(* The venue. *)

\* What futures_create_order can do: return the order, raise
\* BinanceAPIException (the venue refused the order), or raise another
\* Exception (timeout, connection error, malformed response).
Outcomes == {"accept", "reject", "fault"}

Down == [status |-> "down", tickSize |-> 0, pricePrecision |-> 0,
         quantityPrecision |-> 0, notional |-> 0]

Absent == [status |-> "absent", tickSize |-> 0, pricePrecision |-> 0,
           quantityPrecision |-> 0, notional |-> 0]

Listed(t, pp, qp, mn) == [status |-> "listed", tickSize |-> t, pricePrecision |-> pp,
                          quantityPrecision |-> qp, notional |-> mn]

\* Exchange-info answers that honour the venue's contract (tickSize > 0).
SoundMeta == {Down, Absent, Listed(10, 2, 3, 5000), Listed(500, 1, 1, 5000)}

\* Exchange-info answers with a PRICE_FILTER whose tickSize is "0".
AnyMeta == SoundMeta \cup {Listed(0, 2, 3, 5000)}

----------------------------------------------------------------------------
(* Precision Resolver: get_symbol_info and the getters built on it. *)

\* get_symbol_info: the symbol's entry, None when the fetch fails or the
\* symbol is not in the list.
get_symbol_info(m) == IF m.status = "listed" THEN <<m>> ELSE None

\* get_tick_size with 0.01 for its default.
get_tick_size_default_cent(m) ==
    LET symbol_info == get_symbol_info(m)
    IN  IF symbol_info # None THEN symbol_info[1].tickSize ELSE 10

get_tick_size(m) ==
    LET symbol_info == get_symbol_info(m)
    IN  IF symbol_info # None THEN symbol_info[1].tickSize ELSE DefaultTickSize

\* get_price_precision: <<price_precision, quantity_precision>>
get_price_precision(m) ==
    LET symbol_info == get_symbol_info(m)
    IN  IF symbol_info # None
        THEN <<symbol_info[1].pricePrecision, symbol_info[1].quantityPrecision>>
        ELSE <<DefaultPricePrecision, DefaultQuantityPrecision>>

get_min_notional(m) ==
    LET symbol_info == get_symbol_info(m)
    IN  IF symbol_info # None THEN symbol_info[1].notional ELSE DefaultMinNotional

----------------------------------------------------------------------------
(* Python's float: IEEE 754 binary64, round to nearest, ties to even.       *)
(*                                                                         *)
(* A float x >= 0 is held exactly, as the natural number x * 2^75 written  *)
(* in base 2^15 with the least significant limb first and no zero limb at  *)
(* the top (every float of 2^-22 or more is a multiple of 2^-75).  Limbs   *)
(* of 15 bits keep every intermediate below 2^31.                          *)

LimbBits == 15
Limb == 2^LimbBits

\* Limbs below the binary point.
FracLimbs == 5

\* Significant bits of a binary64.
MantissaBits == 53

RECURSIVE Pow2(_)
Pow2(k) == IF k <= 0 THEN 1 ELSE 2 * Pow2(k - 1)

\* The limbs of the natural number n, and back.
RECURSIVE big(_)
big(n) == IF n = 0 THEN << >> ELSE <<n % Limb>> \o big(n \div Limb)

RECURSIVE big_int(_)
big_int(a) == IF a = << >> THEN 0 ELSE Head(a) + Limb * big_int(Tail(a))

RECURSIVE big_trim(_)
big_trim(a) ==
    IF a # << >> /\ a[Len(a)] = 0 THEN big_trim(SubSeq(a, 1, Len(a) - 1)) ELSE a

\* a * s + carry, for s < 2^15.
RECURSIVE big_mul(_, _, _)
big_mul(a, s, carry) ==
    IF a = << >> THEN big(carry)
    ELSE LET v == Head(a) * s + carry
         IN  <<v % Limb>> \o big_mul(Tail(a), s, v \div Limb)

\* Quotient and remainder of a by d, for 0 < d < 2^15.
RECURSIVE big_divmod(_, _)
big_divmod(a, d) ==
    IF a = << >> THEN [q |-> << >>, r |-> 0]
    ELSE LET hi == big_divmod(Tail(a), d)
             v  == hi.r * Limb + Head(a)
         IN  [q |-> <<v \div d>> \o hi.q, r |-> v % d]

RECURSIVE big_add(_, _, _)
big_add(a, b, carry) ==
    IF a = << >> /\ b = << >> THEN big(carry)
    ELSE LET v == (IF a = << >> THEN 0 ELSE Head(a))
                  + (IF b = << >> THEN 0 ELSE Head(b)) + carry
         IN  <<v % Limb>> \o big_add(IF a = << >> THEN a ELSE Tail(a),
                                     IF b = << >> THEN b ELSE Tail(b), v \div Limb)

\* a - b - borrow, for a >= b + borrow.
RECURSIVE big_sub(_, _, _)
big_sub(a, b, borrow) ==
    IF a = << >> THEN << >>
    ELSE LET v == Head(a) - (IF b = << >> THEN 0 ELSE Head(b)) - borrow
         IN  <<(v + Limb) % Limb>>
             \o big_sub(Tail(a), IF b = << >> THEN b ELSE Tail(b),
                        IF v < 0 THEN 1 ELSE 0)

\* -1, 0, 1 as a < b, a = b, a > b.
RECURSIVE big_cmp(_, _)
big_cmp(a, b) ==
    LET x == big_trim(a)
        y == big_trim(b)
    IN  IF Len(x) # Len(y) THEN (IF Len(x) < Len(y) THEN -1 ELSE 1)
        ELSE IF x = << >> THEN 0
        ELSE IF x[Len(x)] # y[Len(y)] THEN (IF x[Len(x)] < y[Len(y)] THEN -1 ELSE 1)
        ELSE big_cmp(SubSeq(x, 1, Len(x) - 1), SubSeq(y, 1, Len(y) - 1))

RECURSIVE bits(_)
bits(n) == IF n = 0 THEN 0 ELSE 1 + bits(n \div 2)

\* The bit length of a.
big_bits(a) ==
    LET x == big_trim(a)
    IN  IF x = << >> THEN 0 ELSE LimbBits * (Len(x) - 1) + bits(x[Len(x)])

\* a * 2^s
big_shl(a, s) ==
    IF a = << >> THEN a
    ELSE [k \in 1..(s \div LimbBits) |-> 0] \o big_mul(a, Pow2(s % LimbBits), 0)

\* a / 2^s rounded to the nearest integer, a tie going to the even one;
\* sticky tells that a stands for a value between a and a + 1.
big_round_shift(a, s, sticky) ==
    IF s = 0 THEN big_trim(a)
    ELSE LET t     == s - 1
             cut   == IF t \div LimbBits < Len(a) THEN t \div LimbBits ELSE Len(a)
             low   == SubSeq(a, 1, cut)
             rest  == SubSeq(a, cut + 1, Len(a))
             dm    == big_divmod(rest, Pow2(t % LimbBits))
             q2    == big_trim(dm.q)
             below == sticky \/ dm.r # 0 \/ \E k \in 1..Len(low) : low[k] # 0
             guard == IF q2 = << >> THEN 0 ELSE q2[1] % 2
             q     == big_trim(big_divmod(q2, 2).q)
             odd   == q # << >> /\ q[1] % 2 = 1
         IN  IF guard = 1 /\ (below \/ odd) THEN big_trim(big_add(q, <<1>>, 0)) ELSE q

\* The float nearest to a (to a value between a and a + 1 when sticky).
float_round(a, sticky) ==
    LET s == big_bits(a) - MantissaBits
    IN  IF s <= 0 THEN big_trim(a)
        ELSE big_trim(big_shl(big_round_shift(a, s, sticky), s))

\* The float a decimal literal of d thousandths denotes: float('100.037').
float_of(d) ==
    LET dm == big_divmod(big_shl(big(d), LimbBits * FracLimbs), 1000)
    IN  float_round(dm.q, dm.r # 0)

\* x + y, x - y (for x >= y), k * x and x / d for floats x, y and ints k, d.
float_add(x, y) == float_round(big_add(x, y, 0), FALSE)

float_sub(x, y) == float_round(big_sub(x, y, 0), FALSE)

float_mul(k, x) == float_round(big_mul(x, k, 0), FALSE)

float_div(x, d) ==
    LET dm == big_divmod(x, d)
    IN  float_round(dm.q, dm.r # 0)

\* a * b
RECURSIVE big_prod(_, _)
big_prod(a, b) ==
    IF b = << >> THEN << >>
    ELSE big_trim(big_add(big_mul(a, Head(b), 0), <<0>> \o big_prod(a, Tail(b)), 0))

\* x * y for floats x and y: the exact product, in units of 2^-150, rounded
\* to the nearest float and brought back to units of 2^-75.
float_mult(x, y) ==
    LET product == float_round(big_prod(x, y), FALSE)
    IN  SubSeq(product, FracLimbs + 1, Len(product))

\* Decimal(str(x)) in thousandths, as <<numerator, denominator>>.  str gives
\* the shortest decimal that reads back as x: the decimal of d thousandths
\* when x is float_of(d), and otherwise a decimal strictly between the two
\* thousandths around x, for which their midpoint stands here (it has the
\* same floor and ceiling at every tick of whole thousandths).
str_decimal(x) ==
    LET scaled == big_mul(x, 1000, 0)
        d0 == big_int(SubSeq(scaled, FracLimbs + 1, Len(scaled)))
    IN  IF float_of(d0) = x THEN <<d0, 1>>
        ELSE IF float_of(d0 + 1) = x THEN <<d0 + 1, 1>>
        ELSE <<2 * d0 + 1, 2>>

----------------------------------------------------------------------------
(* Order Normalizer. *)

\* Python's round(x, ndigits) for a float x >= 0 and 0 <= ndigits <= 3, in
\* thousandths: CPython rounds the float's exact value to the nearest
\* multiple of 10^-ndigits, a tie going to the even multiple, and returns
\* the float nearest to that decimal.
py_round(x, ndigits) ==
    big_int(big_round_shift(big_mul(x, Pow10(ndigits), 0),
                            LimbBits * FracLimbs, FALSE)) * Pow10(3 - ndigits)

\* round_to_tick_size raises decimal.DivisionByZero (InvalidOperation for a
\* price of 0) when the tick size is 0: price_decimal / tick_decimal.
round_to_tick_size_raises(m) == get_tick_size(m) = 0

\* round_to_tick_size with round_up ignored: ROUND_DOWN in both branches.
round_to_tick_size_truncates(num, den, m, round_up) ==
    LET tick_size == get_tick_size(m)
    IN  (num \div (den * tick_size)) * tick_size

\* round_to_tick_size for a price num/den >= 0 and a tick size > 0:
\* quantize(ROUND_UP) is the ceiling, quantize(ROUND_DOWN) the floor.
round_to_tick_size(num, den, m, round_up) ==
    LET tick_size == get_tick_size(m)
        q == num \div (den * tick_size)
    IN  IF round_up /\ q * den * tick_size # num
        THEN (q + 1) * tick_size
        ELSE q * tick_size

----------------------------------------------------------------------------
(* Primitive Order Submitter. *)

\* The keyword arguments of one futures_create_order call, as the venue
\* receives them; leg is the strategy's loop index (0 for a single order) and
\* outcome what the venue did with the request ("pending" while in flight).
Request(leg, type, quantity, price, stopPrice) ==
    [leg |-> leg, type |-> type, quantity |-> quantity, price |-> price,
     stopPrice |-> stopPrice, outcome |-> "pending"]

\* market_request with the tuple of get_price_precision read in the wrong
\* order: the quantity is rounded to the price precision.
market_request_price_precision(m, leg, quantity) ==
    LET qty_precision == get_price_precision(m)[1]
    IN  Request(leg, "MARKET", py_round(float_of(quantity), qty_precision), 0, 0)

\* place_market_order up to the venue call: the quantity is rounded to
\* the symbol's quantity precision.
market_request(m, leg, quantity) ==
    LET qty_precision == get_price_precision(m)[2]
    IN  Request(leg, "MARKET", py_round(float_of(quantity), qty_precision), 0, 0)

\* limit_request with round_to_tick_size's default round_up = False.
limit_request_rounds_down(m, leg, quantity, price) ==
    LET qty_precision == get_price_precision(m)[2]
    IN  Request(leg, "LIMIT", py_round(float_of(quantity), qty_precision),
                round_to_tick_size(price, 1, m, FALSE), 0)

\* place_limit_order up to the venue call: the price is rounded up to the tick.
limit_request(m, leg, quantity, price) ==
    LET qty_precision == get_price_precision(m)[2]
    IN  Request(leg, "LIMIT", py_round(float_of(quantity), qty_precision),
                round_to_tick_size(price, 1, m, TRUE), 0)

\* place_stop_limit_order up to the venue call: both prices are rounded
\* with the default round_up = False.
stop_limit_request(m, leg, quantity, stop_price, limit_price) ==
    LET qty_precision == get_price_precision(m)[2]
    IN  Request(leg, "STOP", py_round(float_of(quantity), qty_precision),
                round_to_tick_size(limit_price, 1, m, FALSE),
                round_to_tick_size(stop_price, 1, m, FALSE))

\* The order dict the venue returns for an accepted request; it numbers the
\* orders it accepts.
OrderOf(req, log) ==
    [orderId |-> Cardinality({k \in 1..Len(log) : log[k].outcome = "accept"}) + 1,
     type |-> req.type, origQty |-> req.quantity, price |-> req.price,
     stopPrice |-> req.stopPrice]

\* submit_result with only BinanceAPIException mapped to None: after any
\* other exception the request is taken for the order.
submit_result_lenient(outcome, req, log) ==
    IF outcome # "reject" THEN <<OrderOf(req, log)>> ELSE None

\* The try/except around futures_create_order: the order when the venue
\* accepts, None after BinanceAPIException and after any other Exception.
submit_result(outcome, req, log) ==
    IF outcome = "accept" THEN <<OrderOf(req, log)>> ELSE None

\* The venue log with the request in flight answered.
Answered(log, outcome) == [log EXCEPT ![Len(log)].outcome = outcome]

----------------------------------------------------------------------------
(* Inputs. *)

Sides == {"BUY", "SELL"}

\* duration_minutes a caller passes.
Durations == {0, 1}

\* Quantities a caller passes: 1.0 and 0.008.
Quantities == {1000, 8}

\* Prices a caller passes: 100.0 and 110.0, and 100.037 for a single order.
Bounds == {100000, 110000}
Prices == {100000, 100037}

\* <<lower_price, upper_price>> a caller of place_grid_order passes: a rising
\* range, a falling one, an empty one, and 0.3 to 99.0.
Ranges == {<<100000, 110000>>, <<110000, 100000>>, <<110000, 110000>>, <<300, 99000>>}

NoArgs == [side |-> "BUY", quantity |-> 0, price |-> 0, stop_price |-> 0,
           lower_price |-> 0, upper_price |-> 0, duration_minutes |-> 0, num |-> 0]

\* What get_input returns at the "Continue? (yes/no)" prompt: the string
\* typed, as the sequence of its characters' code points, or None (<< >>)
\* after Ctrl-C at the prompt (a string typed is never empty: the prompt is
\* repeated).  The strings are "Yes", "y", "no" and "\u00DDes" (Y with acute).
Answers == {<<89, 101, 115>>, <<121>>, <<110, 111>>, <<221, 101, 115>>, None}

\* The prompt was not reached.
NotAsked == <<-1>>

\* The characters of a string typed: the code points of Latin-1.
Latin1 == 0..255

\* str.lower on one character of Latin-1: A-Z, and the capitals U+00C0 to
\* U+00DE but the multiplication sign U+00D7, lie 32 below their small
\* letters; every other character is left as it is.
LowerCase ==
    [c \in Latin1 |-> IF c \in 65..90 \/ c \in 192..214 \/ c \in 216..222
                      THEN c + 32 ELSE c]

lower_char(c) == LowerCase[c]

\* str.lower on a string of Latin-1.
str_lower(answer) == [k \in 1..Len(answer) |-> lower_char(answer[k])]

\* What get_input returns at a prompt for an int: the number typed, or None
\* after Ctrl-C at the prompt.  The durations typed are 0 and 1 minute, the
\* numbers of orders or grid levels 0 to MaxLegs.
TypedDurations == {None} \cup {<<d>> : d \in Durations}
TypedCounts == {None} \cup {<<n>> : n \in 0..MaxLegs}

\* `not x` for the Optional[int] get_input returned: true of None and of 0.
not_typed(x) == x = None \/ x[1] = 0

\* The int a prompt returned, 0 when it returned None.
int_typed(x) == IF x = None THEN 0 ELSE x[1]

\* What get_current_price returns: None when the ticker call fails.
CurrentPrices == {None, <<110000>>, <<120000>>}

\* What it returns in the flows of a single order: 115.0 as well.
Tickers == CurrentPrices \cup {<<115000>>}

\* Quantities and limit prices the operator types for a single order: 0.046
\* as well, and 100.0 and 130.0.
TypedQuantities == Quantities \cup {46}
TypedPrices == {100000, 130000}

\* <<lower_price, upper_price>> the operator types for a grid: 100.0 to 104.5
\* as well.
TypedRanges == (Bounds \X Bounds) \cup {<<100000, 104500>>}

\* Order ids the operator types, and what get_order_status learns: the
\* order's status, "UNKNOWN" for an order without one, "failed" when the
\* method returns None.
OrderIds == {0, 7}
FinalStatuses == {"FILLED", "CANCELED", "EXPIRED", "REJECTED"}
Statuses == FinalStatuses \cup {"NEW", "PARTIALLY_FILLED", "UNKNOWN", "failed"}

\* What the operator answers at the prompts of an interactive flow, the
\* current price the flow fetched, and the status get_order_status returned
\* to it.  duration, num and confirm are what get_input returned (None after
\* Ctrl-C at the prompt) once the prompt is reached, NotAsked before;
\* quantity (the total quantity of a TWAP or a grid), price (the limit
\* price), lower_price, upper_price and order_id are the number typed, 0
\* when the prompt returned None or was not reached.
NoTyped == [quantity |-> 0, price |-> 0, duration |-> NotAsked, lower_price |-> 0,
            upper_price |-> 0, num |-> NotAsked, order_id |-> 0, confirm |-> NotAsked,
            current_price |-> None, status |-> "none"]

\* The strategy's locals: quantity_per_order / qty_per_grid (thousandths),
\* interval_seconds (milliseconds), price_step (the float's magnitude, and
\* whether it is negative), and the values of `price` at line 524 of the legs
\* that went on to their request or to the exception of the rounding,
\* each with the Decimal(str(price)) round_to_tick_size makes of it.
NoLoc == [quantity_per |-> 0, interval |-> 0, price_step |-> << >>,
          falling |-> FALSE, ladder |-> << >>]

Init ==
    /\ meta \in SoundMeta
    /\ op = "idle"
    /\ caller = "direct"
    /\ args = NoArgs
    /\ loc = NoLoc
    /\ pc = "idle"
    /\ i = 0
    /\ orders = << >>
    /\ result = None
    /\ exc = "none"
    /\ venue = << >>
    /\ cancels = 0
    /\ metaCalls = 0
    /\ sleeps = << >>
    /\ reported = << >>
    /\ typed = NoTyped
    /\ calls = << >>

\* The method raises what: nothing it has done is undone, nothing is returned.
Raise(what) ==
    /\ pc' = "raised"
    /\ exc' = what

----------------------------------------------------------------------------
(* place_market_order, place_limit_order, place_stop_limit_order called as   *)
(* such: the call up to the venue's answer, then the answer.               *)

place_market_order(side, quantity) ==
    /\ pc = "idle"
    /\ op' = "market"
    /\ args' = [NoArgs EXCEPT !.side = side, !.quantity = quantity]
    /\ metaCalls' = metaCalls + 1
    /\ venue' = Append(venue, market_request(meta, 0, quantity))
    /\ pc' = "inflight"
    /\ UNCHANGED <<meta, calls, caller, loc, i, orders, result, exc, cancels, sleeps, reported, typed>>

place_limit_order(side, quantity, price) ==
    /\ pc = "idle"
    /\ op' = "limit"
    /\ args' = [NoArgs EXCEPT !.side = side, !.quantity = quantity, !.price = price]
    /\ metaCalls' = metaCalls + 2
    /\ IF round_to_tick_size_raises(meta)
       THEN Raise("DivisionByZero") /\ UNCHANGED venue
       ELSE /\ venue' = Append(venue, limit_request(meta, 0, quantity, price))
            /\ pc' = "inflight"
            /\ UNCHANGED exc
    /\ UNCHANGED <<meta, calls, caller, loc, i, orders, result, cancels, sleeps, reported, typed>>

place_stop_limit_order(side, quantity, stop_price, limit_price) ==
    /\ pc = "idle"
    /\ op' = "stop_limit"
    /\ args' = [NoArgs EXCEPT !.side = side, !.quantity = quantity,
                              !.stop_price = stop_price, !.price = limit_price]
    /\ IF round_to_tick_size_raises(meta)
       THEN Raise("DivisionByZero") /\ metaCalls' = metaCalls + 2 /\ UNCHANGED venue
       ELSE /\ venue' = Append(venue, stop_limit_request(meta, 0, quantity,
                                                         stop_price, limit_price))
            /\ metaCalls' = metaCalls + 3
            /\ pc' = "inflight"
            /\ UNCHANGED exc
    /\ UNCHANGED <<meta, calls, caller, loc, i, orders, result, cancels, sleeps, reported, typed>>

\* submit_returns with a retry: after a transport fault the request is sent
\* again.
submit_returns_retries(outcome) ==
    /\ pc = "inflight"
    /\ op \in {"market", "limit", "stop_limit"}
    /\ IF outcome = "fault"
       THEN /\ venue' = Append(Answered(venue, outcome),
                               [venue[Len(venue)] EXCEPT !.outcome = "pending"])
            /\ UNCHANGED <<result, pc>>
       ELSE /\ venue' = Answered(venue, outcome)
            /\ result' = submit_result(outcome, venue[Len(venue)], venue)
            /\ pc' = "returned"
    /\ UNCHANGED <<meta, calls, op, caller, args, loc, i, orders, exc, cancels,
                   metaCalls, sleeps, reported, typed>>

\* futures_create_order returns or raises; the submitter returns.
submit_returns(outcome) ==
    /\ pc = "inflight"
    /\ op \in {"market", "limit", "stop_limit"}
    /\ venue' = Answered(venue, outcome)
    /\ result' = submit_result(outcome, venue[Len(venue)], venue)
    /\ pc' = "returned"
    /\ UNCHANGED <<meta, calls, op, caller, args, loc, i, orders, exc, cancels,
                   metaCalls, sleeps, reported, typed>>

----------------------------------------------------------------------------
(* place_twap_order. *)

\* Lines 471-477: the locals, before the loop.  total_quantity / num_orders
\* raises ZeroDivisionError for num_orders = 0.
twap_begin(who, side, total_quantity, duration_minutes, num_orders) ==
    /\ op' = "twap"
    /\ caller' = who
    /\ args' = [NoArgs EXCEPT !.side = side, !.quantity = total_quantity,
                              !.duration_minutes = duration_minutes,
                              !.num = num_orders]
    /\ i' = 0
    /\ IF num_orders = 0
       THEN Raise("ZeroDivisionError") /\ UNCHANGED loc
       ELSE /\ loc' = [NoLoc EXCEPT
                          !.quantity_per =
                              py_round(float_div(float_of(total_quantity), num_orders),
                                       get_price_precision(meta)[2]),
                          !.interval = (duration_minutes * 60 * 1000) \div num_orders]
            /\ pc' = "submit"
            /\ UNCHANGED exc

place_twap_order(side, total_quantity, duration_minutes, num_orders) ==
    /\ pc = "idle"
    /\ twap_begin("direct", side, total_quantity, duration_minutes, num_orders)
    /\ metaCalls' = metaCalls + 1
    /\ UNCHANGED <<meta, calls, orders, result, venue, cancels, sleeps, reported, typed>>

\* Line 482 up to the venue call inside place_market_order.
twap_submit ==
    /\ pc = "submit"
    /\ op = "twap"
    /\ metaCalls' = metaCalls + 1
    /\ venue' = Append(venue, market_request(meta, i, loc.quantity_per))
    /\ pc' = "inflight"
    /\ UNCHANGED <<meta, calls, op, caller, args, loc, i, orders, result, exc, cancels,
                   sleeps, reported, typed>>

\* The strategy's `if order: orders.append(order)`.
record(list, order) == IF order # None THEN Append(list, order[1]) ELSE list

\* twap_record with a `break` in the failure branch: the first failed leg
\* ends the run.
twap_record_halts(outcome) ==
    /\ pc = "inflight"
    /\ op = "twap"
    /\ venue' = Answered(venue, outcome)
    /\ orders' = record(orders, submit_result(outcome, venue[Len(venue)], venue))
    /\ IF i < args.num - 1 /\ outcome = "accept"
       THEN pc' = "sleep" /\ UNCHANGED reported
       ELSE /\ pc' = "returned"
            /\ reported' = <<[ok |-> Len(orders'), of |-> args.num]>>
    /\ UNCHANGED <<meta, calls, op, caller, args, loc, i, result, exc, cancels,
                   metaCalls, sleeps, typed>>

\* twap_record without the `if i < num_orders - 1` guard: the sleep follows
\* every leg, the last one too, and the method returns after it.
twap_record_sleeps_always(outcome) ==
    /\ pc = "inflight"
    /\ op = "twap"
    /\ venue' = Answered(venue, outcome)
    /\ orders' = record(orders, submit_result(outcome, venue[Len(venue)], venue))
    /\ IF i < args.num - 1
       THEN pc' = "sleep" /\ UNCHANGED <<reported, sleeps>>
       ELSE /\ pc' = "returned"
            /\ sleeps' = Append(sleeps, [after |-> i, ms |-> loc.interval])
            /\ reported' = <<[ok |-> Len(orders'), of |-> args.num]>>
    /\ UNCHANGED <<meta, calls, op, caller, args, loc, i, result, exc, cancels,
                   metaCalls, typed>>

\* Lines 483-495: the leg's result is recorded; the loop goes on to the
\* sleep, or ends after the last leg and the method returns `orders`.
twap_record(outcome) ==
    /\ pc = "inflight"
    /\ op = "twap"
    /\ venue' = Answered(venue, outcome)
    /\ orders' = record(orders, submit_result(outcome, venue[Len(venue)], venue))
    /\ IF i < args.num - 1
       THEN pc' = "sleep" /\ UNCHANGED reported
       ELSE /\ pc' = "returned"
            /\ reported' = <<[ok |-> Len(orders'), of |-> args.num]>>
    /\ UNCHANGED <<meta, calls, op, caller, args, loc, i, result, exc, cancels,
                   metaCalls, sleeps, typed>>

\* Line 492: time.sleep(interval_seconds) returns; the loop goes to leg i+1.
twap_sleep ==
    /\ pc = "sleep"
    /\ op = "twap"
    /\ sleeps' = Append(sleeps, [after |-> i, ms |-> loc.interval])
    /\ i' = i + 1
    /\ pc' = "submit"
    /\ UNCHANGED <<meta, calls, op, caller, args, loc, orders, result, exc, venue,
                   cancels, metaCalls, reported, typed>>

----------------------------------------------------------------------------
(* place_grid_order. *)

\* Lines 515-521: the locals, before the loop.  quantity / num_grids raises
\* ZeroDivisionError for num_grids = 0, and the price step for num_grids = 1.
grid_begin(who, side, quantity, lower_price, upper_price, num_grids) ==
    /\ op' = "grid"
    /\ caller' = who
    /\ args' = [NoArgs EXCEPT !.side = side, !.quantity = quantity,
                              !.lower_price = lower_price,
                              !.upper_price = upper_price, !.num = num_grids]
    /\ i' = 0
    /\ IF num_grids = 0 \/ num_grids = 1
       THEN Raise("ZeroDivisionError") /\ UNCHANGED loc
       ELSE /\ loc' = [NoLoc EXCEPT
                          !.quantity_per =
                              py_round(float_div(float_of(quantity), num_grids),
                                       get_price_precision(meta)[2]),
                          !.price_step =
                              float_div(IF upper_price >= lower_price
                                        THEN float_sub(float_of(upper_price),
                                                       float_of(lower_price))
                                        ELSE float_sub(float_of(lower_price),
                                                       float_of(upper_price)),
                                        num_grids - 1),
                          !.falling = upper_price < lower_price]
            /\ pc' = "submit"
            /\ UNCHANGED exc

place_grid_order(side, quantity, lower_price, upper_price, num_grids) ==
    /\ pc = "idle"
    /\ grid_begin("direct", side, quantity, lower_price, upper_price, num_grids)
    /\ metaCalls' = metaCalls + 1
    /\ UNCHANGED <<meta, calls, orders, result, venue, cancels, sleeps, reported, typed>>

\* Line 524: price = lower_price + (i * price_step), in floats.
ladder_price(a, l, k) ==
    IF l.falling
    THEN float_sub(float_of(a.lower_price), float_mul(k, l.price_step))
    ELSE float_add(float_of(a.lower_price), float_mul(k, l.price_step))

\* grid_price with round_up = True.
grid_price_rounds_up(m, a, l, k) ==
    LET price == str_decimal(ladder_price(a, l, k))
    IN  round_to_tick_size(price[1], price[2], m, TRUE)

\* Lines 524-526: the ladder price, rounded down to the tick.
grid_price(m, a, l, k) ==
    LET price == str_decimal(ladder_price(a, l, k))
    IN  round_to_tick_size(price[1], price[2], m, FALSE)

\* Lines 524-530 up to the venue call inside place_limit_order.
grid_submit ==
    /\ pc = "submit"
    /\ op = "grid"
    /\ loc' = [loc EXCEPT !.ladder =
                   Append(loc.ladder,
                          [price |-> ladder_price(args, loc, i),
                           decimal |-> str_decimal(ladder_price(args, loc, i))])]
    /\ IF round_to_tick_size_raises(meta)
       THEN Raise("DivisionByZero") /\ metaCalls' = metaCalls + 1 /\ UNCHANGED venue
       ELSE /\ venue' = Append(venue, limit_request(meta, i, loc.quantity_per,
                                                    grid_price(meta, args, loc, i)))
            /\ metaCalls' = metaCalls + 3
            /\ pc' = "inflight"
            /\ UNCHANGED exc
    /\ UNCHANGED <<meta, calls, op, caller, args, i, orders, result, cancels,
                   sleeps, reported, typed>>

\* grid_record with a `break` in the failure branch: the first failed leg
\* ends the ladder.
grid_record_halts(outcome) ==
    /\ pc = "inflight"
    /\ op = "grid"
    /\ venue' = Answered(venue, outcome)
    /\ orders' = record(orders, submit_result(outcome, venue[Len(venue)], venue))
    /\ IF outcome = "accept"
       THEN pc' = "sleep" /\ UNCHANGED reported
       ELSE /\ pc' = "returned"
            /\ reported' = <<[ok |-> Len(orders'), of |-> args.num]>>
    /\ UNCHANGED <<meta, calls, op, caller, args, loc, i, result, exc, cancels,
                   metaCalls, sleeps, typed>>

\* grid_record with the level after a failed leg given up: a failure moves
\* the loop index on by itself.
grid_record_skips_level(outcome) ==
    /\ pc = "inflight"
    /\ op = "grid"
    /\ venue' = Answered(venue, outcome)
    /\ orders' = record(orders, submit_result(outcome, venue[Len(venue)], venue))
    /\ i' = IF outcome = "accept" THEN i ELSE i + 1
    /\ pc' = "sleep"
    /\ UNCHANGED <<meta, calls, op, caller, args, loc, result, exc, cancels,
                   metaCalls, sleeps, reported, typed>>

\* Lines 531-535: the leg's result is recorded; the delay follows every leg.
grid_record(outcome) ==
    /\ pc = "inflight"
    /\ op = "grid"
    /\ venue' = Answered(venue, outcome)
    /\ orders' = record(orders, submit_result(outcome, venue[Len(venue)], venue))
    /\ pc' = "sleep"
    /\ UNCHANGED <<meta, calls, op, caller, args, loc, i, result, exc, cancels,
                   metaCalls, sleeps, reported, typed>>

\* grid_sleep with the loop one leg short: range(num_grids - 1).
grid_sleep_stops_early ==
    /\ pc = "sleep"
    /\ op = "grid"
    /\ sleeps' = Append(sleeps, [after |-> i, ms |-> GridDelay])
    /\ IF i < args.num - 2
       THEN i' = i + 1 /\ pc' = "submit" /\ UNCHANGED reported
       ELSE /\ pc' = "returned"
            /\ reported' = <<[ok |-> Len(orders), of |-> args.num]>>
            /\ UNCHANGED i
    /\ UNCHANGED <<meta, calls, op, caller, args, loc, orders, result, exc, venue,
                   cancels, metaCalls, typed>>

\* Lines 538-541: time.sleep(0.2) returns; the loop goes to leg i+1, or
\* ends and the method returns `orders`.
grid_sleep ==
    /\ pc = "sleep"
    /\ op = "grid"
    /\ sleeps' = Append(sleeps, [after |-> i, ms |-> GridDelay])
    /\ IF i < args.num - 1
       THEN i' = i + 1 /\ pc' = "submit" /\ UNCHANGED reported
       ELSE /\ pc' = "returned"
            /\ reported' = <<[ok |-> Len(orders), of |-> args.num]>>
            /\ UNCHANGED i
    /\ UNCHANGED <<meta, calls, op, caller, args, loc, orders, result, exc, venue,
                   cancels, metaCalls, typed>>

----------------------------------------------------------------------------
(* Cancellation. *)

\* The exchange-info requests of one leg before its order request: one in
\* place_market_order; one in round_to_tick_size at line 526 and two in
\* place_limit_order, or the first alone when the rounding raises.
submit_fetches(kind, m) ==
    IF kind = "twap" THEN 1
    ELSE IF round_to_tick_size_raises(m) THEN 1 ELSE 3

\* KeyboardInterrupt reaches a running method: in time.sleep, before a leg's
\* order request is sent (after `fetched` of the leg's exchange-info
\* requests), or while futures_create_order or futures_cancel_order waits
\* (answer "none": the request stays unanswered) or has just got the venue's
\* answer, which nothing records; or it reaches a flow of TradingCLI after
\* the bot's method has returned to it or while it prints its last message.
\* No method catches it, `except Exception` does not either, and
\* TradingCLI.run answers it with "Goodbye!" and leaves its loop.
interrupt(fetched, answer) ==
    /\ \/ op # "idle" /\ pc \in {"sleep", "submit", "inflight"}
       \/ caller # "direct" /\ pc = "returned"
    /\ fetched \in 0..(IF pc = "submit" THEN submit_fetches(op, meta) ELSE 0)
    /\ answer \in (IF pc = "inflight" /\ op # "cancel"
                   THEN Outcomes \cup {"none"} ELSE {"none"})
    /\ metaCalls' = metaCalls + fetched
    /\ venue' = IF answer = "none" THEN venue ELSE Answered(venue, answer)
    /\ Raise("KeyboardInterrupt")
    /\ UNCHANGED <<meta, calls, op, caller, args, loc, i, orders, result, cancels,
                   sleeps, reported, typed>>

\* The line logged at 494 / 540 before `return orders`.
completed(list, a) == <<[ok |-> Len(list), of |-> a.num]>>

\* KeyboardInterrupt in place_twap_order after the last leg's result is
\* recorded (lines 483-487) and before `return orders`: before line 494 has
\* logged the count, or after it.  (After another leg's result is recorded
\* the method is on its way to the sleep.)
twap_record_interrupted(outcome, logged) ==
    /\ pc = "inflight"
    /\ op = "twap"
    /\ i = args.num - 1
    /\ venue' = Answered(venue, outcome)
    /\ orders' = record(orders, submit_result(outcome, venue[Len(venue)], venue))
    /\ reported' = IF logged THEN completed(orders', args) ELSE reported
    /\ Raise("KeyboardInterrupt")
    /\ UNCHANGED <<meta, calls, op, caller, args, loc, i, result, cancels,
                   metaCalls, sleeps, typed>>

\* KeyboardInterrupt after time.sleep has returned: before the loop's next
\* iteration, or, after the last leg of a grid, before `return orders`, line
\* 540 having logged the count or not.
sleep_interrupted(logged) ==
    /\ pc = "sleep"
    /\ op \in {"twap", "grid"}
    /\ logged => (op = "grid" /\ i = args.num - 1)
    /\ sleeps' = Append(sleeps, [after |-> i,
                                 ms |-> IF op = "twap" THEN loc.interval ELSE GridDelay])
    /\ reported' = IF logged THEN completed(orders, args) ELSE reported
    /\ Raise("KeyboardInterrupt")
    /\ UNCHANGED <<meta, calls, op, caller, args, loc, i, orders, result, venue,
                   cancels, metaCalls, typed>>

----------------------------------------------------------------------------
(* The Precision Resolver's getters and round_to_tick_size called as such,  *)
(* while the exchange-info endpoint's answer changes between the calls.    *)

\* One call in the log: the method, what the endpoint served to it, its
\* arguments, the tuple of values it returned (empty when it raised) and
\* the exception it raised.
Call(what, price, round_up, value, raised) ==
    [what |-> what, served |-> meta, price |-> price, round_up |-> round_up,
     value |-> value, raised |-> raised]

\* A getter or round_to_tick_size returns (or raises) to its caller; each
\* fetches the exchange info once.
Returns(call) ==
    /\ pc = "idle"
    /\ Len(calls) < MaxCalls
    /\ calls' = Append(calls, call)
    /\ metaCalls' = metaCalls + 1
    /\ UNCHANGED <<meta, op, caller, args, loc, pc, i, orders, result, exc,
                   venue, cancels, sleeps, reported, typed>>

call_get_tick_size ==
    Returns(Call("get_tick_size", 0, FALSE, <<get_tick_size(meta)>>, "none"))

call_get_price_precision ==
    Returns(Call("get_price_precision", 0, FALSE, get_price_precision(meta), "none"))

call_get_min_notional ==
    Returns(Call("get_min_notional", 0, FALSE, <<get_min_notional(meta)>>, "none"))

\* price_decimal / tick_decimal with a tick of 0: DivisionByZero, and
\* InvalidOperation for 0 / 0.
call_round_to_tick_size(price, round_up) ==
    IF round_to_tick_size_raises(meta)
    THEN Returns(Call("round_to_tick_size", price, round_up, << >>,
                      IF price = 0 THEN "InvalidOperation" ELSE "DivisionByZero"))
    ELSE Returns(Call("round_to_tick_size", price, round_up,
                      <<round_to_tick_size(price, 1, meta, round_up)>>, "none"))

\* The endpoint changes its answer: the venue edits the symbol's filters,
\* lists or delists the symbol, the connection fails or comes back.
exchange_info_changes(m) ==
    /\ pc = "idle"
    /\ m # meta
    /\ meta' = m
    /\ UNCHANGED <<calls, op, caller, args, loc, pc, i, orders, result, exc,
                   venue, cancels, metaCalls, sleeps, reported, typed>>

----------------------------------------------------------------------------
(* TradingCLI: the interactive flows, from the first prompt to the call of *)
(* the bot's method (or to the flow's early return).                       *)

\* validate_symbol with `return True` in its except branch.
validate_symbol_unless_absent(m) == m.status # "absent"

\* validate_symbol: True only when the fetch succeeds and lists the symbol.
validate_symbol(m) == m.status = "listed"

\* confirmed with the answer read but not tested.
confirmed_any_answer(answer) == answer \in Answers

\* `if confirm.lower() not in ['yes', 'y']`
confirmed(answer) == str_lower(answer) \in {<<121, 101, 115>>, <<121>>}

\* The flow returns to the menu without calling the bot's method; fetches
\* counts its calls of the exchange-info and ticker endpoints.
FlowEnds(flow, t, fetches) ==
    /\ caller' = flow
    /\ typed' = t
    /\ metaCalls' = metaCalls + fetches
    /\ pc' = "returned"
    /\ UNCHANGED <<op, args, loc, i, exc>>

\* The flow raises before calling the bot's method; TradingCLI.run catches an
\* Exception, prints it and shows the menu again.
FlowRaises(flow, t, fetches, what) ==
    /\ caller' = flow
    /\ typed' = t
    /\ metaCalls' = metaCalls + fetches
    /\ Raise(what)
    /\ UNCHANGED <<op, args, loc, i>>

\* TradingCLI.place_twap_order.  Ctrl-C at the confirmation prompt makes
\* get_input return None, and None.lower() raises AttributeError.
cli_place_twap_order(side, total_quantity, duration, num_orders, answer) ==
    LET t1 == [NoTyped EXCEPT !.quantity = total_quantity]
        t2 == [t1 EXCEPT !.duration = duration]
        t3 == [t2 EXCEPT !.num = num_orders]
        t == [t3 EXCEPT !.confirm = answer]
    IN
    /\ pc = "idle"
    /\ IF ~validate_symbol(meta)
       THEN FlowEnds("cli_twap", NoTyped, 1)
       ELSE IF total_quantity = 0
       THEN FlowEnds("cli_twap", t1, 1)
       ELSE IF not_typed(duration)
       THEN FlowEnds("cli_twap", t2, 1)
       ELSE IF not_typed(num_orders)
       THEN FlowEnds("cli_twap", t3, 1)
       ELSE IF answer = None
       THEN FlowRaises("cli_twap", t, 1, "AttributeError")
       ELSE IF ~confirmed(answer)
       THEN FlowEnds("cli_twap", t, 1)
       ELSE /\ twap_begin("cli_twap", side, total_quantity, duration[1], num_orders[1])
            /\ typed' = t
            /\ metaCalls' = metaCalls + 2
    /\ UNCHANGED <<meta, calls, orders, result, venue, cancels, sleeps, reported>>

\* min_sell_price = current_price * 0.95 and max_buy_price = current_price *
\* 1.05, in floats.
min_sell_price(current_price) == float_mult(float_of(current_price[1]), float_of(950))

max_buy_price(current_price) == float_mult(float_of(current_price[1]), float_of(1050))

\* round_to_tick_size(price, symbol, round_up=True) for a float price.
round_up_to_tick(price, m) ==
    LET decimal == str_decimal(price)
    IN  round_to_tick_size(decimal[1], decimal[2], m, TRUE)

\* `if lower_price < min_sell_price` inside `if side == 'SELL' and current_price`
below_min_sell(side, current_price, price) ==
    /\ side = "SELL"
    /\ current_price # None
    /\ big_cmp(float_of(price), min_sell_price(current_price)) = -1

\* TradingCLI.place_grid_order.
cli_place_grid_order(current_price, side, total_quantity, lower_price, upper_price, num_grids, answer) ==
    LET t0 == [NoTyped EXCEPT !.current_price = current_price]
        tq == [t0 EXCEPT !.quantity = total_quantity]
        tl == [tq EXCEPT !.lower_price = lower_price]
        t1 == [tl EXCEPT !.upper_price = upper_price]
        t2 == [t1 EXCEPT !.num = num_grids]
        t3 == [t2 EXCEPT !.confirm = answer]
        adj_lower == below_min_sell(side, current_price, lower_price)
        adj_upper == below_min_sell(side, current_price, upper_price)
        rounds == (IF adj_lower THEN 1 ELSE 0) + (IF adj_upper THEN 1 ELSE 0)
        lower == IF adj_lower
                 THEN round_up_to_tick(min_sell_price(current_price), meta)
                 ELSE lower_price
        upper == IF adj_upper
                 THEN round_up_to_tick(float_mult(min_sell_price(current_price),
                                                  float_of(1100)), meta)
                 ELSE upper_price
    IN
    /\ pc = "idle"
    /\ IF ~validate_symbol(meta)
       THEN FlowEnds("cli_grid", NoTyped, 1)
       ELSE IF total_quantity = 0
       THEN FlowEnds("cli_grid", tq, 2)
       ELSE IF lower_price = 0 \/ upper_price = 0
       THEN FlowEnds("cli_grid", tl, 2)
       ELSE IF lower_price >= upper_price
       THEN FlowEnds("cli_grid", t1, 2)
       ELSE IF not_typed(num_grids) \/ num_grids[1] < 2
       THEN FlowEnds("cli_grid", t2, 2)
       ELSE IF rounds > 0 /\ round_to_tick_size_raises(meta)
       THEN FlowRaises("cli_grid", t2, 3, "DivisionByZero")
       ELSE IF answer = None
       THEN FlowRaises("cli_grid", t3, 2 + rounds, "AttributeError")
       ELSE IF ~confirmed(answer)
       THEN FlowEnds("cli_grid", t3, 2 + rounds)
       ELSE /\ grid_begin("cli_grid", side, total_quantity, lower, upper, num_grids[1])
            /\ typed' = t3
            /\ metaCalls' = metaCalls + 3 + rounds
    /\ UNCHANGED <<meta, calls, orders, result, venue, cancels, sleeps, reported>>

\* The flow calls the bot's method, which raises before it sends a request.
BotRaises(flow, t, fetches, kind, a, what) ==
    /\ caller' = flow
    /\ typed' = t
    /\ metaCalls' = metaCalls + fetches
    /\ op' = kind
    /\ args' = a
    /\ Raise(what)
    /\ UNCHANGED <<loc, i>>

\* The flow calls the submitter, which sends req to the venue.
FlowSubmits(flow, t, fetches, kind, a, req) ==
    /\ caller' = flow
    /\ typed' = t
    /\ metaCalls' = metaCalls + fetches
    /\ op' = kind
    /\ args' = a
    /\ venue' = Append(venue, req)
    /\ pc' = "inflight"
    /\ UNCHANGED <<loc, i, exc>>

\* `if current_price and quantity * current_price < min_notional`
below_min_notional(m, current_price, quantity) ==
    /\ current_price # None
    /\ big_cmp(float_mult(float_of(quantity), float_of(current_price[1])),
               float_of(get_min_notional(m))) = -1

\* TradingCLI.place_market_order.
cli_place_market_order(current_price, side, quantity) ==
    LET t == [NoTyped EXCEPT !.current_price = current_price, !.quantity = quantity]
    IN
    /\ pc = "idle"
    /\ IF ~validate_symbol(meta)
       THEN FlowEnds("cli_market", NoTyped, 1) /\ UNCHANGED venue
       ELSE IF quantity = 0
       THEN FlowEnds("cli_market", t, 2) /\ UNCHANGED venue
       ELSE IF below_min_notional(meta, current_price, quantity)
       THEN FlowEnds("cli_market", t, 3) /\ UNCHANGED venue
       ELSE FlowSubmits("cli_market", t, 4, "market",
                        [NoArgs EXCEPT !.side = side, !.quantity = quantity],
                        market_request(meta, 0, quantity))
    /\ UNCHANGED <<meta, calls, orders, result, cancels, sleeps, reported>>

\* cli.py lines 185-204: the float the limit flow passes on as the price.
banded_price(m, current_price, side, price) ==
    IF current_price = None THEN float_of(price)
    ELSE IF side = "BUY"
    THEN (IF big_cmp(float_of(price), max_buy_price(current_price)) = 1
          THEN max_buy_price(current_price)
          ELSE float_of(price))
    ELSE (IF big_cmp(float_of(price), min_sell_price(current_price)) = -1
          THEN float_of(round_up_to_tick(min_sell_price(current_price), m))
          ELSE float_of(price))

\* limit_request for a price that is a float.
limit_request_float(m, leg, quantity, price) ==
    LET qty_precision == get_price_precision(m)[2]
    IN  Request(leg, "LIMIT", py_round(float_of(quantity), qty_precision),
                round_up_to_tick(price, m), 0)

\* TradingCLI.place_limit_order; args.price is the price passed on, cut to
\* thousandths.
cli_place_limit_order(current_price, side, quantity, price) ==
    LET t1 == [NoTyped EXCEPT !.current_price = current_price,
                              !.quantity = quantity]
        t == [t1 EXCEPT !.price = price]
        passed == banded_price(meta, current_price, side, price)
        rounds == IF below_min_sell(side, current_price, price) THEN 1 ELSE 0
    IN
    /\ pc = "idle"
    /\ IF ~validate_symbol(meta)
       THEN FlowEnds("cli_limit", NoTyped, 1) /\ UNCHANGED venue
       ELSE IF quantity = 0 \/ price = 0
       THEN FlowEnds("cli_limit", t1, 2) /\ UNCHANGED venue
       ELSE IF round_to_tick_size_raises(meta) /\ rounds = 1
       THEN FlowRaises("cli_limit", t, 3, "DivisionByZero") /\ UNCHANGED venue
       ELSE IF round_to_tick_size_raises(meta)
       THEN /\ BotRaises("cli_limit", t, 4, "limit",
                         [NoArgs EXCEPT !.side = side, !.quantity = quantity,
                                        !.price = str_decimal(passed)[1]
                                                      \div str_decimal(passed)[2]],
                         "DivisionByZero")
            /\ UNCHANGED venue
       ELSE FlowSubmits("cli_limit", t, 4 + rounds, "limit",
                        [NoArgs EXCEPT !.side = side, !.quantity = quantity,
                                       !.price = str_decimal(passed)[1]
                                                     \div str_decimal(passed)[2]],
                        limit_request_float(meta, 0, quantity, passed))
    /\ UNCHANGED <<meta, calls, orders, result, cancels, sleeps, reported>>

\* TradingCLI.place_stop_limit_order.
cli_place_stop_limit_order(current_price, side, quantity, stop_price, limit_price) ==
    LET t1 == [NoTyped EXCEPT !.current_price = current_price,
                              !.quantity = quantity]
        t == [t1 EXCEPT !.price = limit_price]
    IN
    /\ pc = "idle"
    /\ IF ~validate_symbol(meta)
       THEN FlowEnds("cli_stop_limit", NoTyped, 1) /\ UNCHANGED venue
       ELSE IF quantity = 0 \/ stop_price = 0 \/ limit_price = 0
       THEN FlowEnds("cli_stop_limit", t1, 2) /\ UNCHANGED venue
       ELSE IF round_to_tick_size_raises(meta)
       THEN /\ BotRaises("cli_stop_limit", t, 4, "stop_limit",
                         [NoArgs EXCEPT !.side = side, !.quantity = quantity,
                                        !.stop_price = stop_price,
                                        !.price = limit_price],
                         "DivisionByZero")
            /\ UNCHANGED venue
       ELSE FlowSubmits("cli_stop_limit", t, 5, "stop_limit",
                        [NoArgs EXCEPT !.side = side, !.quantity = quantity,
                                       !.stop_price = stop_price,
                                       !.price = limit_price],
                        stop_limit_request(meta, 0, quantity, stop_price, limit_price))
    /\ UNCHANGED <<meta, calls, orders, result, cancels, sleeps, reported>>

\* cli_cancel_order with `if not order: return`: no cancel request after a
\* status query that failed.
cli_cancel_order_needs_status(order_id, status) ==
    /\ pc = "idle"
    /\ caller' = "cli_cancel"
    /\ IF order_id = 0
       THEN /\ typed' = NoTyped
            /\ pc' = "returned"
            /\ UNCHANGED <<op, cancels>>
       ELSE /\ typed' = [NoTyped EXCEPT !.order_id = order_id, !.status = status]
            /\ IF status \in FinalStatuses \cup {"failed"}
               THEN pc' = "returned" /\ UNCHANGED <<op, cancels>>
               ELSE /\ op' = "cancel"
                    /\ cancels' = cancels + 1
                    /\ pc' = "inflight"
    /\ UNCHANGED <<meta, calls, args, loc, i, orders, result, exc, venue,
                   metaCalls, sleeps, reported>>

\* TradingCLI.get_current_price: one ticker request, and the price or the
\* failure is printed.
cli_get_current_price(current_price) ==
    /\ pc = "idle"
    /\ FlowEnds("cli_price", [NoTyped EXCEPT !.current_price = current_price], 1)
    /\ UNCHANGED <<meta, calls, orders, result, venue, cancels, sleeps, reported>>

\* TradingCLI.cancel_order up to the venue call inside the bot's
\* cancel_order: get_order_status first, and no cancel request for an order
\* whose status is final.
cli_cancel_order(order_id, status) ==
    /\ pc = "idle"
    /\ caller' = "cli_cancel"
    /\ IF order_id = 0
       THEN /\ typed' = NoTyped
            /\ pc' = "returned"
            /\ UNCHANGED <<op, cancels>>
       ELSE /\ typed' = [NoTyped EXCEPT !.order_id = order_id, !.status = status]
            /\ IF status \in FinalStatuses
               THEN pc' = "returned" /\ UNCHANGED <<op, cancels>>
               ELSE /\ op' = "cancel"
                    /\ cancels' = cancels + 1
                    /\ pc' = "inflight"
    /\ UNCHANGED <<meta, calls, args, loc, i, orders, result, exc, venue,
                   metaCalls, sleeps, reported>>

\* futures_cancel_order returns or raises; cancel_order returns the venue's
\* response, or None.
cancel_returns(outcome) ==
    /\ pc = "inflight"
    /\ op = "cancel"
    /\ result' = IF outcome = "accept"
                 THEN <<[orderId |-> typed.order_id, status |-> "CANCELED"]>>
                 ELSE None
    /\ pc' = "returned"
    /\ UNCHANGED <<meta, calls, op, caller, args, loc, i, orders, exc, venue,
                   cancels, metaCalls, sleeps, reported, typed>>

----------------------------------------------------------------------------
(* KeyboardInterrupt before a method or a flow has sent its request.       *)

\* Where a flow is: what the operator has typed and the flow has learnt so
\* far, and the bot's method it is in ("idle" while it is in TradingCLI's
\* own code).
Stage(t, kind) == [typed |-> t, op |-> kind]

InFlow(t) == Stage(t, "idle")

\* KeyboardInterrupt once the flow has sent `fetched` of the exchange-info
\* and ticker requests it sends before its order request, and not the next:
\* stages[k + 1] is the set of places where the flow can be by then, from
\* the wait for the answer to request k to the line that sends request k + 1,
\* and `a` the arguments the flow calls the bot's method with.
Interrupted(flow, stages, a, fetched) ==
    /\ pc = "idle"
    /\ \E places \in {stages} :
          /\ fetched \in 0..(Len(places) - 1)
          /\ \E stage \in places[fetched + 1] :
                /\ typed' = stage.typed
                /\ op' = stage.op
                /\ args' = IF stage.op = "idle" THEN NoArgs ELSE a
    /\ caller' = flow
    /\ metaCalls' = metaCalls + fetched
    /\ Raise("KeyboardInterrupt")
    /\ UNCHANGED <<meta, calls, loc, i, orders, result, venue, cancels, sleeps,
                   reported>>

\* A method of the bot called as such: it sends `fetches` requests before
\* its order request or its loop.
InBot(kind, fetches) == [k \in 1..(fetches + 1) |-> {Stage(NoTyped, kind)}]

place_market_order_interrupted(side, quantity, fetched) ==
    Interrupted("direct", InBot("market", 1),
                [NoArgs EXCEPT !.side = side, !.quantity = quantity],
                fetched)

place_limit_order_interrupted(side, quantity, price, fetched) ==
    Interrupted("direct", InBot("limit", 2),
                [NoArgs EXCEPT !.side = side, !.quantity = quantity, !.price = price],
                fetched)

place_stop_limit_order_interrupted(side, quantity, stop_price, limit_price, fetched) ==
    Interrupted("direct",
                InBot("stop_limit", IF round_to_tick_size_raises(meta) THEN 2 ELSE 3),
                [NoArgs EXCEPT !.side = side, !.quantity = quantity,
                               !.stop_price = stop_price, !.price = limit_price],
                fetched)

place_twap_order_interrupted(side, total_quantity, duration_minutes, num_orders, fetched) ==
    Interrupted("direct", InBot("twap", 1),
                [NoArgs EXCEPT !.side = side, !.quantity = total_quantity,
                               !.duration_minutes = duration_minutes,
                               !.num = num_orders],
                fetched)

place_grid_order_interrupted(side, quantity, lower_price, upper_price, num_grids, fetched) ==
    Interrupted("direct", InBot("grid", 1),
                [NoArgs EXCEPT !.side = side, !.quantity = quantity,
                               !.lower_price = lower_price,
                               !.upper_price = upper_price, !.num = num_grids],
                fetched)

\* The members of a set, or none of them.
Only(condition, places) == IF condition THEN places ELSE {}

\* TradingCLI.place_market_order: validate_symbol, get_current_price, the
\* prompts, get_min_notional, and get_price_precision in the bot's method.
cli_place_market_order_interrupted(current_price, side, quantity, fetched) ==
    LET t0 == [NoTyped EXCEPT !.current_price = current_price]
        t == [t0 EXCEPT !.quantity = quantity]
        bot == Stage(t, "market")
        start == <<{InFlow(NoTyped)}, {InFlow(NoTyped)}>>
        prompts == {InFlow(NoTyped), InFlow(t0), InFlow(t)}
    IN  Interrupted("cli_market",
            IF ~validate_symbol(meta) THEN start
            ELSE IF quantity = 0 THEN start \o <<prompts>>
            ELSE IF below_min_notional(meta, current_price, quantity)
            THEN start \o <<prompts, {InFlow(t)}>>
            ELSE start \o <<prompts, {InFlow(t), bot}, {bot}>>,
            [NoArgs EXCEPT !.side = side, !.quantity = quantity],
            fetched)

\* TradingCLI.place_limit_order: validate_symbol, get_current_price, the
\* prompts, the flow's own round_to_tick_size for a SELL below the band, and
\* get_price_precision and get_tick_size in the bot's method.
cli_place_limit_order_interrupted(current_price, side, quantity, price, fetched) ==
    LET t0 == [NoTyped EXCEPT !.current_price = current_price]
        t1 == [t0 EXCEPT !.quantity = quantity]
        t == [t1 EXCEPT !.price = price]
        bot == Stage(t, "limit")
        start == <<{InFlow(NoTyped)}, {InFlow(NoTyped)}>>
        prompts == {InFlow(NoTyped), InFlow(t0), InFlow(t1)}
                   \cup Only(quantity # 0, {InFlow(t)})
    IN  Interrupted("cli_limit",
            IF ~validate_symbol(meta) THEN start
            ELSE IF quantity = 0 \/ price = 0 THEN start \o <<prompts>>
            ELSE IF ~below_min_sell(side, current_price, price)
            THEN start \o <<prompts \cup {bot}, {bot}, {bot}>>
            ELSE IF round_to_tick_size_raises(meta)
            THEN start \o <<prompts, {InFlow(t)}>>
            ELSE start \o <<prompts, {InFlow(t), bot}, {bot}, {bot}>>,
            LET passed == str_decimal(banded_price(meta, current_price, side, price))
            IN  [NoArgs EXCEPT !.side = side, !.quantity = quantity,
                               !.price = passed[1] \div passed[2]],
            fetched)

\* TradingCLI.place_stop_limit_order: validate_symbol, get_current_price,
\* the prompts, and in the bot's method get_price_precision and
\* get_tick_size twice, the first rounding raising for a tick of 0.
cli_place_stop_limit_order_interrupted(current_price, side, quantity, stop_price, limit_price, fetched) ==
    LET t0 == [NoTyped EXCEPT !.current_price = current_price]
        t1 == [t0 EXCEPT !.quantity = quantity]
        t == [t1 EXCEPT !.price = limit_price]
        bot == Stage(t, "stop_limit")
        start == <<{InFlow(NoTyped)}, {InFlow(NoTyped)}>>
        prompts == {InFlow(NoTyped), InFlow(t0), InFlow(t1)}
                   \cup Only(quantity # 0 /\ stop_price # 0, {InFlow(t)})
    IN  Interrupted("cli_stop_limit",
            IF ~validate_symbol(meta) THEN start
            ELSE IF quantity = 0 \/ stop_price = 0 \/ limit_price = 0
            THEN start \o <<prompts>>
            ELSE IF round_to_tick_size_raises(meta)
            THEN start \o <<prompts \cup {bot}, {bot}, {bot}>>
            ELSE start \o <<prompts \cup {bot}, {bot}, {bot}, {bot}>>,
            [NoArgs EXCEPT !.side = side, !.quantity = quantity,
                           !.stop_price = stop_price, !.price = limit_price],
            fetched)

\* TradingCLI.place_twap_order: validate_symbol, the prompts, and
\* get_price_precision in the bot's method once the operator has confirmed.
cli_place_twap_order_interrupted(side, total_quantity, duration, num_orders, answer, fetched) ==
    LET t1 == [NoTyped EXCEPT !.quantity = total_quantity]
        t2 == [t1 EXCEPT !.duration = duration]
        t3 == [t2 EXCEPT !.num = num_orders]
        t == [t3 EXCEPT !.confirm = answer]
        bot == Stage(t, "twap")
        prompts == {InFlow(NoTyped), InFlow(t1)}
                   \cup Only(total_quantity # 0, {InFlow(t2)})
                   \cup Only(total_quantity # 0 /\ ~not_typed(duration), {InFlow(t3)})
    IN  Interrupted("cli_twap",
            IF ~validate_symbol(meta) THEN <<{InFlow(NoTyped)}, {InFlow(NoTyped)}>>
            ELSE IF total_quantity = 0 \/ not_typed(duration) \/ not_typed(num_orders)
            THEN <<{InFlow(NoTyped)}, prompts>>
            ELSE IF answer = None \/ ~confirmed(answer)
            THEN <<{InFlow(NoTyped)}, prompts \cup {InFlow(t)}>>
            ELSE <<{InFlow(NoTyped)}, prompts \cup {InFlow(t), bot}, {bot}>>,
            [NoArgs EXCEPT !.side = side, !.quantity = total_quantity,
                           !.duration_minutes = int_typed(duration),
                           !.num = int_typed(num_orders)],
            fetched)

\* The stages of TradingCLI.place_grid_order once the symbol is validated
\* and the bounds and the number of levels are typed: the flow's
\* round_to_tick_size for each of the `rounds` bounds of a SELL below the
\* band, the confirmation, and get_price_precision in the bot's method.
grid_stages(rounds, prompts, t2, t3, answer) ==
    LET start == <<{InFlow(NoTyped)}, {InFlow(NoTyped)}>>
        bot == Stage(t3, "grid")
        summary == IF answer = None \/ ~confirmed(answer)
                   THEN <<{InFlow(t3)}>>
                   ELSE <<{InFlow(t3), bot}, {bot}>>
        with(places, stages) == <<places \cup stages[1]>> \o Tail(stages)
    IN  IF rounds = 0 THEN start \o with(prompts, summary)
        ELSE IF round_to_tick_size_raises(meta) THEN start \o <<prompts, {InFlow(t2)}>>
        ELSE IF rounds = 1 THEN start \o <<prompts>> \o with({InFlow(t2)}, summary)
        ELSE start \o <<prompts, {InFlow(t2)}>> \o with({InFlow(t2)}, summary)

\* TradingCLI.place_grid_order: validate_symbol, get_current_price, the
\* prompts, and the stages above.
cli_place_grid_order_interrupted(current_price, side, total_quantity, lower_price, upper_price, num_grids, answer, fetched) ==
    LET t0 == [NoTyped EXCEPT !.current_price = current_price]
        tq == [t0 EXCEPT !.quantity = total_quantity]
        tl == [tq EXCEPT !.lower_price = lower_price]
        t1 == [tl EXCEPT !.upper_price = upper_price]
        t2 == [t1 EXCEPT !.num = num_grids]
        t3 == [t2 EXCEPT !.confirm = answer]
        adj_lower == below_min_sell(side, current_price, lower_price)
        adj_upper == below_min_sell(side, current_price, upper_price)
        lower == IF adj_lower
                 THEN round_up_to_tick(min_sell_price(current_price), meta)
                 ELSE lower_price
        upper == IF adj_upper
                 THEN round_up_to_tick(float_mult(min_sell_price(current_price),
                                                  float_of(1100)), meta)
                 ELSE upper_price
        start == <<{InFlow(NoTyped)}, {InFlow(NoTyped)}>>
        prompts == {InFlow(NoTyped), InFlow(t0), InFlow(tq)}
                   \cup Only(total_quantity # 0, {InFlow(tl)})
                   \cup Only(total_quantity # 0 /\ lower_price # 0, {InFlow(t1)})
    IN  Interrupted("cli_grid",
            IF ~validate_symbol(meta) THEN start
            ELSE IF total_quantity = 0 \/ lower_price = 0 \/ upper_price = 0
                    \/ lower_price >= upper_price
            THEN start \o <<prompts>>
            ELSE IF not_typed(num_grids) \/ num_grids[1] < 2
            THEN start \o <<prompts \cup {InFlow(t2)}>>
            ELSE grid_stages((IF adj_lower THEN 1 ELSE 0) + (IF adj_upper THEN 1 ELSE 0),
                             prompts \cup {InFlow(t2)}, t2, t3, answer),
            [NoArgs EXCEPT !.side = side, !.quantity = total_quantity,
                           !.lower_price = lower, !.upper_price = upper,
                           !.num = int_typed(num_grids)],
            fetched)

\* TradingCLI.cancel_order before its cancel request: before or while
\* get_order_status waits (status "none"), or once that has returned, in the
\* flow or in the bot's cancel_order.
cli_cancel_order_interrupted(order_id, status) ==
    LET t1 == [NoTyped EXCEPT !.order_id = order_id]
        t == [t1 EXCEPT !.status = status]
    IN  Interrupted("cli_cancel",
            <<IF status = "none"
              THEN {InFlow(NoTyped)} \cup Only(order_id # 0, {InFlow(t1)})
              ELSE Only(order_id # 0,
                        {InFlow(t)}
                        \cup Only(status \notin FinalStatuses, {Stage(t, "cancel")}))>>,
            NoArgs,
            0)

\* TradingCLI.get_current_price before its ticker request, while it waits,
\* or once the price is there.
cli_get_current_price_interrupted(current_price, fetched) ==
    Interrupted("cli_price",
                <<{InFlow(NoTyped)},
                  {InFlow(NoTyped), InFlow([NoTyped EXCEPT !.current_price = current_price])}>>,
                NoArgs,
                fetched)

----------------------------------------------------------------------------

\* The venue answers, a sleep ends, Ctrl-C arrives: the steps of a strategy
\* under way.
Step ==
    \/ twap_submit
    \/ \E o \in Outcomes : twap_record(o)
    \/ twap_sleep
    \/ grid_submit
    \/ \E o \in Outcomes : grid_record(o)
    \/ grid_sleep
    \/ \E k \in 0..3, o \in Outcomes \cup {"none"} : interrupt(k, o)
    \/ \E o \in Outcomes, logged \in BOOLEAN : twap_record_interrupted(o, logged)
    \/ \E logged \in BOOLEAN : sleep_interrupted(logged)

\* No method and no flow sends more exchange-info and ticker requests than
\* this before its order request.
MaxFetches == 5

\* The three primitive submitters called as such, and the venue's answer.
Primitive ==
    \/ \E o \in Outcomes : submit_returns(o)
    \/ pc = "idle" /\ \E s \in Sides, q \in Quantities : place_market_order(s, q)
    \/ pc = "idle" /\ \E s \in Sides, q \in Quantities, p \in Prices : place_limit_order(s, q, p)
    \/ pc = "idle" /\ \E s \in Sides, q \in Quantities, sp \in Prices, lp \in Prices :
          place_stop_limit_order(s, q, sp, lp)
    \/ pc = "idle" /\ \E s \in Sides, q \in Quantities, k \in 0..MaxFetches :
          place_market_order_interrupted(s, q, k)
    \/ pc = "idle" /\ \E s \in Sides, q \in Quantities, p \in Prices, k \in 0..MaxFetches :
          place_limit_order_interrupted(s, q, p, k)
    \/ pc = "idle" /\ \E s \in Sides, q \in Quantities, sp \in Prices, lp \in Prices,
          k \in 0..MaxFetches : place_stop_limit_order_interrupted(s, q, sp, lp, k)

\* The two strategies called as such.
Strategy ==
    \/ pc = "idle" /\ \E s \in Sides, q \in Quantities, d \in Durations, n \in 0..MaxLegs :
          place_twap_order(s, q, d, n)
    \/ pc = "idle" /\ \E s \in Sides, q \in Quantities, r \in Ranges, n \in 0..MaxLegs :
          place_grid_order(s, q, r[1], r[2], n)
    \/ pc = "idle" /\ \E s \in Sides, q \in Quantities, d \in Durations, n \in 0..MaxLegs,
          k \in 0..MaxFetches : place_twap_order_interrupted(s, q, d, n, k)
    \/ pc = "idle" /\ \E s \in Sides, q \in Quantities, r \in Ranges, n \in 0..MaxLegs,
          k \in 0..MaxFetches : place_grid_order_interrupted(s, q, r[1], r[2], n, k)

\* The interactive flows, and the venue's answer to the single order or the
\* cancel request a flow sent.
Flow ==
    \/ pc = "idle" /\ \E s \in Sides, q \in Quantities, d \in TypedDurations,
          n \in TypedCounts, a \in Answers : cli_place_twap_order(s, q, d, n, a)
    \/ pc = "idle" /\ \E cp \in CurrentPrices, s \in Sides, q \in Quantities, r \in TypedRanges,
          n \in TypedCounts, a \in Answers :
          cli_place_grid_order(cp, s, q, r[1], r[2], n, a)
    \/ pc = "idle" /\ \E cp \in Tickers, s \in Sides, q \in TypedQuantities :
          cli_place_market_order(cp, s, q)
    \/ pc = "idle" /\ \E cp \in Tickers, s \in Sides, q \in TypedQuantities, p \in TypedPrices :
          cli_place_limit_order(cp, s, q, p)
    \/ pc = "idle" /\ \E cp \in Tickers, s \in Sides, q \in TypedQuantities, sp \in TypedPrices,
          lp \in TypedPrices : cli_place_stop_limit_order(cp, s, q, sp, lp)
    \/ pc = "idle" /\ \E id \in OrderIds, st \in Statuses : cli_cancel_order(id, st)
    \/ pc = "idle" /\ \E cp \in Tickers : cli_get_current_price(cp)
    \/ pc = "idle" /\ \E s \in Sides, q \in Quantities, d \in TypedDurations,
          n \in TypedCounts, a \in Answers, k \in 0..MaxFetches :
          cli_place_twap_order_interrupted(s, q, d, n, a, k)
    \/ pc = "idle" /\ \E cp \in CurrentPrices, s \in Sides, q \in Quantities, r \in TypedRanges,
          n \in TypedCounts, a \in Answers, k \in 0..MaxFetches :
          cli_place_grid_order_interrupted(cp, s, q, r[1], r[2], n, a, k)
    \/ pc = "idle" /\ \E cp \in Tickers, s \in Sides, q \in TypedQuantities,
          k \in 0..MaxFetches : cli_place_market_order_interrupted(cp, s, q, k)
    \/ pc = "idle" /\ \E cp \in Tickers, s \in Sides, q \in TypedQuantities, p \in TypedPrices,
          k \in 0..MaxFetches : cli_place_limit_order_interrupted(cp, s, q, p, k)
    \/ pc = "idle" /\ \E cp \in Tickers, s \in Sides, q \in TypedQuantities, sp \in TypedPrices,
          lp \in TypedPrices, k \in 0..MaxFetches :
          cli_place_stop_limit_order_interrupted(cp, s, q, sp, lp, k)
    \/ pc = "idle" /\ \E id \in OrderIds, st \in Statuses \cup {"none"} :
          cli_cancel_order_interrupted(id, st)
    \/ pc = "idle" /\ \E cp \in Tickers, k \in 0..MaxFetches :
          cli_get_current_price_interrupted(cp, k)
    \/ \E o \in Outcomes : submit_returns(o)
    \/ \E o \in Outcomes : cancel_returns(o)

\* The bot's methods called as such, the venue keeping to its contract.
Next == Primitive \/ Strategy \/ Step

Spec == Init /\ [][Next]_vars

\* The interactive flows of TradingCLI.
NextCli == Flow \/ Step

SpecCli == Init /\ [][NextCli]_vars

\* The primitive submitters, for every answer of the exchange-info endpoint.
InitAnyMeta ==
    /\ meta \in AnyMeta
    /\ op = "idle"
    /\ caller = "direct"
    /\ args = NoArgs
    /\ loc = NoLoc
    /\ pc = "idle"
    /\ i = 0
    /\ orders = << >>
    /\ result = None
    /\ exc = "none"
    /\ venue = << >>
    /\ cancels = 0
    /\ metaCalls = 0
    /\ sleeps = << >>
    /\ reported = << >>
    /\ typed = NoTyped
    /\ calls = << >>

NextAnyMeta ==
    \/ Primitive
    \/ \E o \in Outcomes \cup {"none"} : interrupt(0, o)

SpecAnyMeta == InitAnyMeta /\ [][NextAnyMeta]_vars

\* The resolver's and normalizer's methods called as such, for every answer
\* of the exchange-info endpoint, which may change between two calls.
NextResolver ==
    \/ call_get_tick_size
    \/ call_get_price_precision
    \/ call_get_min_notional
    \/ \E p \in Prices \cup {0}, up \in BOOLEAN : call_round_to_tick_size(p, up)
    \/ \E m \in AnyMeta : exchange_info_changes(m)

SpecResolver == InitAnyMeta /\ [][NextResolver]_vars

----------------------------------------------------------------------------
(* Properties. *)

Primitives == {"market", "limit", "stop_limit"}
Strategies == {"twap", "grid"}

\* The requests of the log the venue accepted, rejected, could not answer.
Accepted(log) == {k \in 1..Len(log) : log[k].outcome = "accept"}
Rejected(log) == {k \in 1..Len(log) : log[k].outcome = "reject"}
Faulted(log) == {k \in 1..Len(log) : log[k].outcome = "fault"}

\* The k-th request is the one of leg k-1, and of the given type.
InLegOrder(log, type) ==
    \A k \in 1..Len(log) : log[k].leg = k - 1 /\ log[k].type = type

\* C1: a TWAP run with num_orders = n >= 1 never sends more than n
\* order-creation requests, sends them for the legs 0..n-1 in order, and when
\* it returns it has sent exactly n, whatever the venue did with each, and
\* returns at most n orders.
C1_TwapAttemptsEveryLeg ==
    (op = "twap" /\ args.num >= 1) =>
        /\ Len(venue) <= args.num
        /\ InLegOrder(venue, "MARKET")
        /\ pc = "returned" => /\ Len(venue) = args.num
                              /\ Len(orders) <= args.num

\* A returned TWAP run of MaxLegs legs whose first leg the venue rejected and
\* whose second leg met a transport fault.
C1_Witness ==
    /\ op = "twap" /\ pc = "returned"
    /\ args.num = MaxLegs /\ Len(venue) = MaxLegs
    /\ venue[1].outcome = "reject" /\ venue[2].outcome = "fault"

\* C2: when a TWAP run returns, the number of orders it returns, which is
\* the k of its "k/n successful" report, is the number of legs the venue
\* accepted, whether the other legs were rejected or met a transport fault.
C2_TwapCountsAccepted ==
    (op = "twap" /\ pc = "returned") =>
        /\ Len(orders) = Cardinality(Accepted(venue))
        /\ reported = <<[ok |-> Cardinality(Accepted(venue)), of |-> args.num]>>

\* A returned TWAP run of MaxLegs legs of which exactly one was rejected and
\* none met a transport fault: it reports MaxLegs - 1 of MaxLegs.
C2_Witness ==
    /\ op = "twap" /\ pc = "returned" /\ args.num = MaxLegs
    /\ Cardinality(Rejected(venue)) = 1 /\ Faulted(venue) = {}
    /\ reported = <<[ok |-> MaxLegs - 1, of |-> MaxLegs]>>

\* C3: in a TWAP run of n >= 1 legs the request of leg k+1 is sent only
\* after leg k's answer is recorded and k+1 sleeps of the interval have
\* finished; a sleep starts only after the leg's answer is recorded; no sleep
\* follows the last leg, so a returned run has slept n-1 times and a run
\* with n = 1 not at all.  (A run that KeyboardInterrupt ended may have
\* finished the sleep after leg i without having gone on to leg i+1.)
C3_TwapPacing ==
    (op = "twap" /\ args.num >= 1) =>
        /\ i < args.num
        /\ Len(sleeps) \in {i, i + 1}
        /\ Len(sleeps) = i + 1 =>
              (pc = "raised" /\ exc = "KeyboardInterrupt" /\ i < args.num - 1)
        /\ \A k \in 1..Len(sleeps) :
              sleeps[k] = [after |-> k - 1, ms |-> loc.interval]
        /\ Len(venue) \in {i, i + 1}
        /\ pc = "submit" => Len(venue) = i
        /\ pc \in {"inflight", "sleep", "returned"} => Len(venue) = i + 1
        /\ \A k \in 1..Len(venue) :
              venue[k].outcome = "pending" =>
                  /\ k = Len(venue)
                  /\ pc = "inflight" \/ (pc = "raised" /\ exc = "KeyboardInterrupt")
        /\ pc = "returned" => Len(sleeps) = args.num - 1

\* A returned TWAP run of MaxLegs legs: MaxLegs - 1 sleeps lie between them.
C3_Witness ==
    /\ op = "twap" /\ pc = "returned" /\ args.num = MaxLegs
    /\ Len(venue) = MaxLegs /\ Len(sleeps) = MaxLegs - 1
    /\ args.duration_minutes = 1

\* C4: a Grid run with num_grids = n >= 2 sends the LIMIT requests of the
\* legs 0..n-1 in order whatever the venue did with the earlier ones, and
\* when it returns it has sent all n and returns (and reports) as many
\* orders as the venue accepted.
C4_GridAttemptsEveryLeg ==
    (op = "grid" /\ args.num >= 2) =>
        /\ Len(venue) <= args.num
        /\ InLegOrder(venue, "LIMIT")
        /\ pc = "returned" =>
              /\ Len(venue) = args.num
              /\ Len(orders) = Cardinality(Accepted(venue))
              /\ reported = <<[ok |-> Cardinality(Accepted(venue)), of |-> args.num]>>

\* A returned Grid run of MaxLegs legs whose first leg met a transport
\* fault, whose second leg was rejected and whose last leg was accepted.
C4_Witness ==
    /\ op = "grid" /\ pc = "returned" /\ args.num = MaxLegs
    /\ venue[1].outcome = "fault" /\ venue[2].outcome = "reject"
    /\ venue[MaxLegs].outcome = "accept"

\* C5: a strategy run that returns hands back one result per leg, in leg
\* order (so that the failed legs can be told from the others).
C5_OneResultPerLeg ==
    (op \in Strategies /\ pc = "returned") => Len(orders) = args.num

\* C6: a primitive submitter sends at most one order-creation request per
\* call, none after the venue rejected the request or the transport failed,
\* and no strategy sends the request of a leg twice.
C6_AtMostOnce ==
    /\ op \in Primitives => Len(venue) <= 1
    /\ \A j \in 1..Len(venue) : \A k \in 1..Len(venue) :
          j < k => venue[j].leg # venue[k].leg
    /\ \A k \in 1..Len(venue) :
          venue[k].outcome \in {"reject", "fault"} =>
              \A j \in 1..Len(venue) : j > k => venue[j].leg > venue[k].leg

\* A limit order whose only request met a transport fault: the submitter
\* has returned None.
C6_Witness ==
    /\ op = "limit" /\ pc = "returned"
    /\ Len(venue) = 1 /\ venue[1].outcome = "fault"
    /\ result = None

\* The ErrorKind of the spec's taxonomy for a failed request.
ErrorKind(outcome) ==
    IF outcome = "reject" THEN "VenueRejected" ELSE "TransportFailure"

\* C7: the value a primitive submitter returns after a failed request marks
\* the failure and names its kind, VenueRejected or TransportFailure.
C7_FailureKindReturned ==
    (op \in Primitives /\ pc = "returned" /\ venue[1].outcome # "accept") =>
        /\ result # None
        /\ result[1].errorKind = ErrorKind(venue[1].outcome)

\* C8: a primitive submitter returns a value and never raises, whatever the
\* venue does and whatever constraints the Precision Resolver resolves
\* (unless the operator interrupts it).
C8_SubmitterNeverRaises ==
    (op \in Primitives /\ exc # "KeyboardInterrupt") => (pc # "raised" /\ exc = "none")

\* C9: a Grid request with num_grids < 2 or lower_price >= upper_price is
\* rejected before an order-creation request reaches the venue.
C9_GridPreconditionRejected ==
    (op = "grid" /\ (args.num < 2 \/ args.lower_price >= args.upper_price)) =>
        venue = << >>

\* C10: a strategy run cancelled at a sleep or before a leg submits no
\* further leg, sends no cancel request and reports the number of legs
\* completed so far.
C10_CancelReportsCount ==
    [][(op \in Strategies /\ pc \in {"sleep", "submit"}
        /\ exc' = "KeyboardInterrupt") =>
           /\ venue' = venue
           /\ cancels' = 0
           /\ reported' = <<[ok |-> Len(orders), of |-> args.num]>>]_vars

----------------------------------------------------------------------------
(* The Precision Resolver and the Order Normalizer. *)

Getters == {"get_tick_size", "get_price_precision", "get_min_notional"}

\* C11: two calls of the same getter in one session return identical
\* values, whatever the exchange-info endpoint answered to each.
C11_ResolveTwiceSame ==
    \A j \in 1..Len(calls) : \A k \in 1..Len(calls) :
        (calls[j].what \in Getters /\ calls[j].what = calls[k].what) =>
            calls[j].value = calls[k].value

\* C12: a getter that was served a failed fetch or a list without the
\* symbol raises nothing and returns its documented default: tick size 0.1,
\* precisions (2, 3), minimum notional 5.0; and round_to_tick_size, which
\* calls get_tick_size, goes on to round to the tick 0.1.
C12_DefaultsWhenUnavailable ==
    \A k \in 1..Len(calls) :
        calls[k].served.status # "listed" =>
            /\ calls[k].raised = "none"
            /\ calls[k].what = "get_tick_size" => calls[k].value = <<100>>
            /\ calls[k].what = "get_price_precision" => calls[k].value = <<2, 3>>
            /\ calls[k].what = "get_min_notional" => calls[k].value = <<5000>>
            /\ calls[k].what = "round_to_tick_size" =>
                  /\ calls[k].value[1] % 100 = 0
                  /\ calls[k].value[1] > calls[k].price - 100
                  /\ calls[k].value[1] < calls[k].price + 100

\* get_tick_size answered by a failed fetch, then 100.037 rounded up while
\* the symbol is not listed.
C12_Witness ==
    /\ Len(calls) = 2
    /\ calls[1].what = "get_tick_size" /\ calls[1].served.status = "down"
    /\ calls[2].what = "round_to_tick_size" /\ calls[2].served.status = "absent"
    /\ calls[2].price = 100037 /\ calls[2].round_up /\ calls[2].value = <<100100>>

\* C13: for a price p >= 0 and a resolved tick size t > 0, round_to_tick_size
\* returns a multiple of t: with round_up the smallest one >= p, without it
\* the largest one <= p.
C13_RoundToTick ==
    \A k \in 1..Len(calls) :
        (calls[k].what = "round_to_tick_size" /\ get_tick_size(calls[k].served) > 0) =>
            LET t == get_tick_size(calls[k].served)
                p == calls[k].price
            IN  /\ calls[k].raised = "none"
                /\ calls[k].value[1] % t = 0
                /\ calls[k].round_up =>
                      (calls[k].value[1] >= p /\ calls[k].value[1] - t < p)
                /\ ~calls[k].round_up =>
                      (calls[k].value[1] <= p /\ calls[k].value[1] + t > p)

\* 100.037 rounded up to 100.5 and rounded down to 100.0 at the tick 0.5.
C13_Witness ==
    /\ Len(calls) = 2
    /\ calls[1] = [what |-> "round_to_tick_size", served |-> Listed(500, 1, 1, 5000),
                   price |-> 100037, round_up |-> TRUE, value |-> <<100500>>,
                   raised |-> "none"]
    /\ calls[2] = [what |-> "round_to_tick_size", served |-> Listed(500, 1, 1, 5000),
                   price |-> 100037, round_up |-> FALSE, value |-> <<100000>>,
                   raised |-> "none"]

\* C14: quantity rounding truncates: the quantity a submitter sends is
\* never greater than the quantity it was given, and the quantity of a
\* strategy's leg never greater than the total quantity over the number of
\* legs.
C14_QuantityNeverAbove ==
    /\ op \in Primitives =>
          \A k \in 1..Len(venue) : venue[k].quantity <= args.quantity
    /\ (op \in Strategies /\ args.num >= 1) =>
          \A k \in 1..Len(venue) : venue[k].quantity * args.num <= args.quantity

\* C15: round_to_tick_size called with a price of 0, or resolving a tick
\* size of 0, raises nothing and returns the price it was given.
C15_ZeroReturnsInput ==
    \A k \in 1..Len(calls) :
        (/\ calls[k].what = "round_to_tick_size"
         /\ (calls[k].price = 0 \/ get_tick_size(calls[k].served) = 0)) =>
            /\ calls[k].raised = "none"
            /\ calls[k].value = <<calls[k].price>>

\* C16: in a Grid run with num_grids = n >= 2 and lower_price < upper_price
\* the prices computed before tick rounding are strictly increasing, the
\* first is lower_price and the n-th is upper_price.
C16_LadderBeforeRounding ==
    (op = "grid" /\ args.num >= 2 /\ args.lower_price < args.upper_price) =>
        /\ \A k \in 1..(Len(loc.ladder) - 1) :
              big_cmp(loc.ladder[k].price, loc.ladder[k + 1].price) = -1
        /\ Len(loc.ladder) >= 1 => loc.ladder[1].price = float_of(args.lower_price)
        /\ Len(loc.ladder) = args.num =>
              loc.ladder[args.num].price = float_of(args.upper_price)

\* C17: the price of every Grid leg's request is the largest multiple of
\* the tick at or below the leg's computed ladder price: the round-up inside
\* place_limit_order leaves the rounded-down price where it is.
C17_GridSnapsDown ==
    (op = "grid" /\ args.num >= 2) =>
        \A k \in 1..Len(venue) :
            LET t     == get_tick_size(meta)
                price == loc.ladder[k].decimal
            IN  /\ venue[k].price % t = 0
                /\ venue[k].price * price[2] <= price[1]
                /\ price[1] < (venue[k].price + t) * price[2]

\* The second leg of a 4-leg ladder from 100.0 to 110.0 at the tick 0.5:
\* 103.33... is sent as 103.0.
C17_Witness ==
    /\ op = "grid" /\ args.num = 4
    /\ args.lower_price = 100000 /\ args.upper_price = 110000
    /\ get_tick_size(meta) = 500
    /\ Len(venue) >= 2 /\ venue[2].price = 103000

\* C18: place_limit_order sends the smallest multiple of the tick at or
\* above its price; place_stop_limit_order sends, for the stop price and
\* for the limit price, the largest multiple of the tick at or below it.
C18_SubmitterRounding ==
    LET t == get_tick_size(meta)
    IN  /\ (op = "limit" /\ Len(venue) = 1) =>
              /\ venue[1].price % t = 0
              /\ venue[1].price >= args.price
              /\ venue[1].price - t < args.price
        /\ (op = "stop_limit" /\ Len(venue) = 1) =>
              /\ venue[1].price % t = 0
              /\ venue[1].price <= args.price
              /\ venue[1].price + t > args.price
              /\ venue[1].stopPrice % t = 0
              /\ venue[1].stopPrice <= args.stop_price
              /\ venue[1].stopPrice + t > args.stop_price

\* A limit order at 100.037 sent at 100.04, the tick being 0.01.
C18_Witness ==
    /\ op = "limit" /\ Len(venue) = 1
    /\ get_tick_size(meta) = 10
    /\ args.price = 100037 /\ venue[1].price = 100040

\* C19: every request of a TWAP run is a MARKET order of the same quantity,
\* total_quantity / num_orders rounded to the quantity precision; the
\* rounding inside place_market_order does not change it.  (A run
\* interrupted before its first request has no leg, and may have none of its
\* locals.)
C19_TwapEqualQuantity ==
    (op = "twap" /\ args.num >= 1 /\ ~(pc = "raised" /\ venue = << >>)) =>
        LET unit == Pow10(3 - get_price_precision(meta)[2])
            off  == loc.quantity_per * args.num - args.quantity
        IN  /\ loc.quantity_per % unit = 0
            /\ 2 * off <= args.num * unit
            /\ -2 * off <= args.num * unit
            /\ \A k \in 1..Len(venue) :
                  venue[k].type = "MARKET" /\ venue[k].quantity = loc.quantity_per

\* A returned TWAP run of 1.0 over 4 legs at 3 digits: 0.25 each.
C19_Witness ==
    /\ op = "twap" /\ pc = "returned"
    /\ args.quantity = 1000 /\ args.num = 4
    /\ get_price_precision(meta)[2] = 3
    /\ Len(venue) = 4
    /\ \A k \in 1..4 : venue[k].quantity = 250

\* The state of leg k (0-based) of a strategy run.
LegState(log, k) ==
    IF k >= Len(log) THEN "Pending"
    ELSE IF log[k + 1].outcome = "pending" THEN "InFlight"
    ELSE IF log[k + 1].outcome = "accept" THEN "Done"
    ELSE "Failed"

\* The moves of a leg: it may stay, go from Pending to InFlight and from
\* InFlight to Done or Failed.
LegMoves(from, to) ==
    \/ from = to
    \/ from = "Pending" /\ to = "InFlight"
    \/ from = "InFlight" /\ to \in {"Done", "Failed"}

\* At most one leg is InFlight, and a run that returned has every leg Done
\* or Failed.
LegsInvariant ==
    op \in Strategies =>
        /\ Cardinality({k \in 0..MaxLegs : LegState(venue, k) = "InFlight"}) <= 1
        /\ pc = "returned" =>
              \A k \in 0..(args.num - 1) : LegState(venue, k) \in {"Done", "Failed"}

\* C20: in a strategy run every leg moves only Pending -> InFlight -> Done
\* or Failed and stays there, at most one leg is InFlight at a time, and the
\* run returns only when every leg is Done or Failed.
C20_LegStateMachine ==
    /\ []LegsInvariant
    /\ [][op' \in Strategies =>
            \A k \in 0..MaxLegs : LegMoves(LegState(venue, k), LegState(venue', k))]_vars

\* A TWAP run with leg 0 Done, leg 1 Failed, leg 2 InFlight, leg 3 Pending.
C20_Witness ==
    /\ op = "twap" /\ args.num >= 4 /\ pc = "inflight"
    /\ LegState(venue, 0) = "Done" /\ LegState(venue, 1) = "Failed"
    /\ LegState(venue, 2) = "InFlight" /\ LegState(venue, 3) = "Pending"

\* C21: a TWAP request with numOrders >= 1 and durationMinutes >= 0,
\* durationMinutes = 0 included, is accepted: once the operator has typed a
\* positive quantity and a duration of 0 or more for a listed symbol, the
\* flow, unless Ctrl-C ends it, asks for the number of orders and, that
\* number being 1 or more, for the confirmation; and a run that returned
\* attempted every leg.
C21_TwapZeroDurationAccepted ==
    /\ (caller = "cli_twap" /\ pc # "idle" /\ meta.status = "listed"
        /\ ~(pc = "raised" /\ exc = "KeyboardInterrupt")
        /\ typed.quantity > 0
        /\ typed.duration \notin {NotAsked, None} /\ typed.duration[1] >= 0)
          => /\ typed.num # NotAsked
             /\ (typed.num # None /\ typed.num[1] >= 1) => typed.confirm # NotAsked
    /\ (op = "twap" /\ pc = "returned") => Len(venue) = args.num

\* C22: whenever the grid flow calls place_grid_order, the lower bound it
\* passes is below the upper bound, the SELL price-floor adjustment included.
C22_GridBoundsAscending ==
    (caller = "cli_grid" /\ op = "grid") => args.lower_price < args.upper_price

\* C23: with the current price known, the price the limit flow sends to the
\* venue is never above 105% of the current price for a BUY and never below
\* 95% of it for a SELL.
C23_LimitPriceInBand ==
    (caller = "cli_limit" /\ op = "limit" /\ typed.current_price # None) =>
        \A k \in 1..Len(venue) :
            /\ args.side = "BUY" =>
                  venue[k].price * 100 <= typed.current_price[1] * 105
            /\ args.side = "SELL" =>
                  venue[k].price * 100 >= typed.current_price[1] * 95

\* The sum of the quantities of the requests of the log.
RECURSIVE submitted_quantity(_)
submitted_quantity(log) ==
    IF log = << >> THEN 0 ELSE Head(log).quantity + submitted_quantity(Tail(log))

\* C24: the quantities submitted over the legs of a TWAP or Grid run never
\* sum to more than the total quantity the caller asked for.
C24_LegsSumWithinTotal ==
    op \in Strategies => submitted_quantity(venue) <= args.quantity

\* C25: a Grid run of n legs that returned made n - 1 pacing delays, one
\* after each leg but the last.
C25_GridDelaysBetweenLegs ==
    (op = "grid" /\ pc = "returned") =>
        /\ Len(sleeps) = args.num - 1
        /\ \A k \in 1..Len(sleeps) : sleeps[k].after < args.num - 1

\* The quantity of every leg and the price of leg k of a Grid run, from the
\* arguments of the call alone.
leg_quantity(m, a) ==
    LET qty_precision == get_price_precision(m)[2]
    IN  py_round(float_of(py_round(float_div(float_of(a.quantity), a.num),
                                   qty_precision)), qty_precision)

leg_price(m, a, k) ==
    grid_price(m, a,
               [falling |-> a.upper_price < a.lower_price,
                price_step |->
                    float_div(IF a.upper_price >= a.lower_price
                              THEN float_sub(float_of(a.upper_price),
                                             float_of(a.lower_price))
                              ELSE float_sub(float_of(a.lower_price),
                                             float_of(a.upper_price)),
                              a.num - 1)], k)

\* C26: a failed leg leaves the list of results, the loop index and the
\* strategy's locals as they were, and every leg is sent with the quantity
\* and, in Grid, the price its index and the call's arguments give it,
\* whatever became of the legs before it.
C26_FailedLegChangesNothing ==
    [][op' \in Strategies =>
          /\ (pc = "inflight" /\ pc' # "inflight"
              /\ venue'[Len(venue')].outcome # "accept")
                => (orders' = orders /\ i' = i /\ loc' = loc /\ args' = args)
          /\ Len(venue') = Len(venue) + 1 =>
                /\ venue'[Len(venue')].leg = Len(venue)
                /\ venue'[Len(venue')].quantity = leg_quantity(meta, args)
                /\ op = "grid" =>
                      venue'[Len(venue')].price = leg_price(meta, args, Len(venue))]_vars

\* A Grid run whose leg 1 failed and whose leg 2 was accepted.
C26_Witness ==
    /\ op = "grid" /\ Len(venue) >= 3
    /\ venue[1].outcome = "accept" /\ venue[2].outcome = "reject"
    /\ venue[3].outcome = "accept" /\ Len(orders) = 2

\* C27: the cancel flow sends at most one cancel request, none before it
\* has asked for the order's status, none when the status it obtained is
\* FILLED, CANCELED, EXPIRED or REJECTED, and one in every other case, a
\* failed status query included (the status query answered, and the flow
\* not ended by KeyboardInterrupt before its cancel request).
C27_CancelAfterStatus ==
    caller = "cli_cancel" =>
        /\ cancels <= 1
        /\ cancels = 1 => (typed.status # "none" /\ typed.status \notin FinalStatuses)
        /\ (typed.order_id # 0 /\ typed.status \notin FinalStatuses \cup {"none"}
            /\ ~(pc = "raised" /\ exc = "KeyboardInterrupt"))
              => cancels = 1

\* The cancel request sent after a status query that failed.
C27_Witness ==
    /\ caller = "cli_cancel" /\ typed.status = "failed"
    /\ cancels = 1 /\ pc = "returned"

PlacementFlows == {"cli_market", "cli_limit", "cli_stop_limit", "cli_twap", "cli_grid"}

\* C28: a placement flow sends no order-creation request when the venue's
\* list lacks the symbol or the metadata fetch failed: the flow has ended
\* (or was interrupted) outside the bot's submitters, nothing sent.
C28_NoOrderForUnconfirmedSymbol ==
    (caller \in PlacementFlows /\ meta.status # "listed") =>
        /\ venue = << >>
        /\ op = "idle"
        /\ pc = "returned" \/ (pc = "raised" /\ exc = "KeyboardInterrupt")

\* The stop-limit flow ended for a failed metadata fetch.
C28_Witness ==
    /\ caller = "cli_stop_limit" /\ meta.status = "down"
    /\ pc = "returned" /\ venue = << >>

\* C29: the TWAP and Grid flows send no order-creation request unless the
\* operator answered the confirmation prompt with yes or y (in any letter
\* case); after any other answer, or an interrupted prompt, the flow has
\* ended with no leg submitted.
C29_NoLegWithoutConfirmation ==
    (caller \in {"cli_twap", "cli_grid"}
     /\ (\/ typed.confirm \in {NotAsked, None}
         \/ str_lower(typed.confirm) \notin {<<121, 101, 115>>, <<121>>})) =>
        (venue = << >> /\ op = "idle" /\ pc \in {"returned", "raised"})

\* The Grid flow ended by Ctrl-C at the confirmation prompt.
C29_Witness ==
    /\ caller = "cli_grid" /\ typed.confirm = None
    /\ pc = "raised" /\ exc = "AttributeError" /\ venue = << >>

\* C30: with the current price known, the market flow sends no order whose
\* quantity times the current price is below the minimum notional.
C30_MarketOrderMeetsMinNotional ==
    (caller = "cli_market" /\ typed.current_price # None) =>
        \A k \in 1..Len(venue) :
            venue[k].quantity * typed.current_price[1] >= get_min_notional(meta) * 1000

====
